---- MODULE Spec2Model ----
(***************************************************************************)
(* A model of the albert launcher core:                                    *)
(*   - QtPluginLoader (src/src/qtpluginloader.cpp): metadata validation in *)
(*     the constructor, load(), unload(), the destructor guard;            *)
(*   - TriggerModel (src/src/lib/settings/triggerwidget.cpp): the table of *)
(*     (handler, trigger, enabled) entries over the QueryEngine;           *)
(*   - Query (src/include/albert/extension/frontend/query.h): only the     *)
(*     abstract interface is part of the sources, its life cycle is taken  *)
(*     from the specification.                                             *)
(* Strings that the code inspects character by character are sequences of  *)
(* one-character strings.                                                  *)
(***************************************************************************)
EXTENDS Integers, Sequences, FiniteSets, TLC

VARIABLES
    \* ---- plugin loader ----
    rawMetadata,    \* the module's embedded metadata: iid, id, version, name[..], description[..]
    module,         \* how the native module behaves: object kind, whether it releases
    ctor,           \* "none" | "constructed" | "failed": outcome of QtPluginLoader's constructor
    metadata_,      \* QtPluginLoader::metadata_ (after extraction)
    errors,         \* the QStringList errors of the validation block
    thrown,         \* what() of the exception the constructor threw ("" if none)
    state,          \* PluginLoader::state()
    instance_,      \* QtPluginLoader::instance_ (0 is nullptr)
    heap,           \* the PluginInstance objects that are alive
    registry,       \* ids of the extensions in the ExtensionRegistry
    returned,       \* the QString the last load()/unload() returned
    loadLog,        \* one record per finished load request
    unloadLog,      \* one record per finished unload request
    alive,          \* FALSE once the loader has been destroyed
    destroyedIn,    \* the state the loader was in when it was destroyed
    diagnostics,    \* the WARN lines written
    \* ---- query engine and trigger table ----
    idOf,           \* QueryHandler::id() of each handler object, as its rank in id order
    allowRemap,     \* QueryHandler::allow_trigger_remap() of each handler object
    registered,     \* the handlers in the registry
    handlerConfig,  \* QueryEngine::handlerConfig()
    activeTriggers, \* QueryEngine::activeTriggers(), as a set of <<trigger, handler>>
    query_handlers, \* TriggerModel::query_handlers
    lastSetData,    \* the last setData call and what it returned
    \* ---- query ----
    qstate,         \* Idle | Running | Finished | Cancelled
    pending,        \* handlers whose invocation has not delivered yet
    delivered,      \* handlers whose invocation has completed
    produced,       \* how many items each handler has handed over
    matches,        \* the observable match sequence
    finishedCount,  \* how often the finished signal was emitted
    cancelInfo      \* what was observed when cancel() was called

loaderVars == <<rawMetadata, module, ctor, metadata_, errors, thrown, state, instance_,
                heap, registry, returned, loadLog, unloadLog, alive, destroyedIn,
                diagnostics>>
triggerVars == <<idOf, allowRemap, registered, handlerConfig, activeTriggers, query_handlers,
                 lastSetData>>
queryVars == <<qstate, pending, delivered, produced, matches, finishedCount, cancelInfo>>
vars == <<loaderVars, triggerVars, queryVars>>

(***************************************************************************)
(* Bounds                                                                  *)
(***************************************************************************)
MaxIdLen == 2
MaxLoads == 2
NHandlers == 3
NQueryHandlers == 2
MaxItems == 1
MaxCancels == 2

(***************************************************************************)
(* Characters and small string helpers                                     *)
(***************************************************************************)
Digits == {"0", "1", "2", "3", "4", "5", "6", "7", "8", "9"}
LowerLetters == {"a", "b", "c", "d", "e", "f", "g", "h", "i", "j", "k", "l", "m",
                 "n", "o", "p", "q", "r", "s", "t", "u", "v", "w", "x", "y", "z"}

DigitValue(c) ==
    CASE c = "0" -> 0 [] c = "1" -> 1 [] c = "2" -> 2 [] c = "3" -> 3 [] c = "4" -> 4
      [] c = "5" -> 5 [] c = "6" -> 6 [] c = "7" -> 7 [] c = "8" -> 8 [] c = "9" -> 9

SeqsUpTo(S, n) == UNION {[1..k -> S] : k \in 0..n}

\* QString::toUInt: the decimal value, 0 when the text is no number.  (It is also 0
\* beyond the range of unsigned int: no iid of IidInputs has that many digits.)
RECURSIVE DecimalValue(_)
DecimalValue(s) ==
    IF s = <<>> THEN 0
    ELSE 10 * DecimalValue(SubSeq(s, 1, Len(s) - 1)) + DigitValue(s[Len(s)])

toUInt(s) ==
    IF s = <<>> \/ \E i \in 1..Len(s) : s[i] \notin Digits THEN 0
    ELSE DecimalValue(s)

\* Length of the longest run of digits of s that starts at position p.
RECURSIVE DigitRun(_, _)
DigitRun(s, p) ==
    IF p > Len(s) \/ s[p] \notin Digits THEN 0 ELSE 1 + DigitRun(s, p + 1)

(***************************************************************************)
(* The three regular expressions of the validation block                   *)
(***************************************************************************)
ANY == "<any>"

\* R"R(org.albert.PluginInterface/(\d+).(\d+))R": the dots are unescaped.
IidLiteral ==
    <<"o", "r", "g", ANY, "a", "l", "b", "e", "r", "t", ANY,
      "P", "l", "u", "g", "i", "n", "I", "n", "t", "e", "r", "f", "a", "c", "e", "/">>

LiteralAt(s, at) ==
    /\ at + Len(IidLiteral) - 1 <= Len(s)
    /\ \A i \in 1..Len(IidLiteral) :
          IidLiteral[i] = ANY \/ s[at + i - 1] = IidLiteral[i]

\* Lengths k of the first group for which the rest, .(\d+), still matches.
MajorLens(s, p) ==
    {k \in 1..DigitRun(s, p) : p + k <= Len(s) /\ DigitRun(s, p + k + 1) >= 1}

MatchesAt(s, at) == LiteralAt(s, at) /\ MajorLens(s, at + Len(IidLiteral)) # {}

\* The match of regex_iid on s: unanchored, leftmost, both groups greedy.
regex_iid(s) ==
    LET starts == {at \in 1..Len(s) : MatchesAt(s, at)} IN
    IF starts = {} THEN [hasMatch |-> FALSE, captured1 |-> <<>>, captured2 |-> <<>>]
    ELSE LET at == CHOOSE a \in starts : \A b \in starts : a <= b
             p == at + Len(IidLiteral)
             k == CHOOSE x \in MajorLens(s, p) : \A y \in MajorLens(s, p) : x >= y
             q == p + k + 1
         IN [hasMatch |-> TRUE,
             captured1 |-> SubSeq(s, p, p + k - 1),
             captured2 |-> SubSeq(s, q, q + DigitRun(s, q) - 1)]

\* R"R(^(\d+)(?>\.(\d+))?\.(\d+)$)R": anchored at both ends.
regex_version(s) ==
    LET a == DigitRun(s, 1)
        b == DigitRun(s, a + 2)
        c == DigitRun(s, a + b + 3)
    IN /\ a >= 1
       /\ a + 1 <= Len(s) /\ s[a + 1] = "."
       /\ b >= 1
       /\ \/ a + 1 + b = Len(s)
          \/ /\ a + b + 2 <= Len(s) /\ s[a + b + 2] = "."
             /\ c >= 1
             /\ a + b + 2 + c = Len(s)

IsIdChar(c) == c \in LowerLetters \cup Digits \cup {"_"}

\* QRegularExpression("[a-z0-9_]").match(id).hasMatch(): one such character anywhere.
regex_id(id) == \E i \in 1..Len(id) : IsIdChar(id[i])

(***************************************************************************)
(* QtPluginLoader: metadata extraction and validation (the constructor)    *)
(***************************************************************************)
\* albert/config.h is generated by the build; the interface version 0.23 stands for it.
ALBERT_VERSION_MAJOR == 0
ALBERT_VERSION_MINOR == 23

RECURSIVE Str(_)
Str(s) == IF s = <<>> THEN "" ELSE s[1] \o Str(Tail(s))

RECURSIVE join(_, _)
join(list, sep) ==
    IF list = <<>> THEN ""
    ELSE IF Len(list) = 1 THEN list[1]
    ELSE list[1] \o sep \o join(Tail(list), sep)

\* key[<lang>_<TERRITORY>], then key[<lang>], then key.
fetchLocalizedMetadata(json) ==
    IF json.territory # "" THEN json.territory
    ELSE IF json.language # "" THEN json.language
    ELSE json.plain

NotAnAlbertPlugin == "Not an albert plugin"
InvalidIidMsg ==
    "Invalid IID pattern: ''. Expected 'org.albert.PluginInterface/(\\d+).(\\d+)'."
MajorMsg(major) ==
    "Incompatible major version: " \o ToString(major) \o ". Expected: "
        \o ToString(ALBERT_VERSION_MAJOR) \o "."
MinorMsg(minor) ==
    "Incompatible minor version: " \o ToString(minor) \o ". Supported up to: "
        \o ToString(ALBERT_VERSION_MINOR) \o "."
VersionMsg == "Invalid version scheme. Use '<version>.<patch>'."
IdMsg == "Invalid plugin id. Use [a-z0-9_]."
NameMsg == "'name' must not be empty."
DescriptionMsg == "'description' must not be empty."

NoMetadata == [iid |-> <<>>, id |-> <<>>, version |-> <<>>, name |-> "", description |-> ""]

extractMetadata(raw) ==
    [iid |-> raw.iid, id |-> raw.id, version |-> raw.version,
     name |-> fetchLocalizedMetadata(raw.name),
     description |-> fetchLocalizedMetadata(raw.description)]

\* The iid checks are one if / else if chain: at most one entry comes from it.
iidErrors(iid) ==
    LET iid_match == regex_iid(iid)
        plugin_iid_major == toUInt(iid_match.captured1)
        plugin_iid_minor == toUInt(iid_match.captured2)
    IN IF ~iid_match.hasMatch THEN <<InvalidIidMsg>>
       ELSE IF plugin_iid_major # ALBERT_VERSION_MAJOR THEN <<MajorMsg(plugin_iid_major)>>
       ELSE IF plugin_iid_minor > ALBERT_VERSION_MINOR THEN <<MinorMsg(plugin_iid_minor)>>
       ELSE <<>>

validate(m) ==
    iidErrors(m.iid)
    \o (IF ~regex_version(m.version) THEN <<VersionMsg>> ELSE <<>>)
    \o (IF ~regex_id(m.id) THEN <<IdMsg>> ELSE <<>>)
    \o (IF m.name = "" THEN <<NameMsg>> ELSE <<>>)
    \o (IF m.description = "" THEN <<DescriptionMsg>> ELSE <<>>)

\* The constructor: what it leaves in metadata_ and errors, and what it throws.
QtPluginLoader_ctor(raw) ==
    IF raw.iid = <<>>
    THEN [metadata_ |-> NoMetadata, errors |-> <<>>, throws |-> TRUE,
          thrown |-> NotAnAlbertPlugin]
    ELSE LET m == extractMetadata(raw)
             errs == validate(m)
         IN [metadata_ |-> m, errors |-> errs, throws |-> errs # <<>>,
             thrown |-> join(errs, ", ")]

(***************************************************************************)
(* QtPluginLoader: load, unload, destructor                                *)
(***************************************************************************)
NotPluginInstanceMsg == "Plugin is not of type albert::PluginInstance."
LoadErrorString == "Cannot load library: file not found"
UnloadErrorString == "Cannot unload library"

\* A load() that takes any object the module produces for a plugin instance.
load_without_cast(mod, cur, fresh) ==
    IF mod.kind # "unresolvable"
    THEN [instance_ |-> fresh, created |-> {fresh}, ret |-> ""]
    ELSE [instance_ |-> cur, created |-> {}, ret |-> LoadErrorString]

\* load(): loader.instance() is non-null unless the module does not resolve; the
\* dynamic_cast yields the object only if it is a PluginInstance.
QtPluginLoader_load(mod, cur, fresh) ==
    IF mod.kind # "unresolvable"
    THEN IF mod.kind = "plugin"
         THEN [instance_ |-> fresh, created |-> {fresh}, ret |-> ""]
         ELSE [instance_ |-> 0, created |-> {}, ret |-> NotPluginInstanceMsg]
    ELSE [instance_ |-> cur, created |-> {}, ret |-> LoadErrorString]

\* An unload() that releases the module first and keeps the instance when that fails.
unload_release_first(mod, cur) ==
    IF mod.releases
    THEN [instance_ |-> 0, deleted |-> {cur} \ {0}, ret |-> ""]
    ELSE [instance_ |-> cur, deleted |-> {}, ret |-> UnloadErrorString]

\* An unload() that deletes the instance and forgets to clear the pointer.
unload_without_clear(mod, cur) ==
    [instance_ |-> cur, deleted |-> {cur} \ {0},
     ret |-> IF mod.releases THEN "" ELSE UnloadErrorString]

\* unload(): delete instance_; instance_ = nullptr; then loader.unload().
QtPluginLoader_unload(mod, cur) ==
    [instance_ |-> 0, deleted |-> {cur} \ {0},
     ret |-> IF mod.releases THEN "" ELSE UnloadErrorString]

\* A destructor that only warns about a loader that is still Loaded.
dtor_loaded_only(st, m) ==
    IF st = "Loaded"
    THEN << <<"Logic error: QtPluginLoader destroyed in non Unloaded state:", Str(m.id)>> >>
    ELSE <<>>

\* ~QtPluginLoader(): the WARN items, if any.
QtPluginLoader_dtor(st, m) ==
    IF st # "Unloaded"
    THEN << <<"Logic error: QtPluginLoader destroyed in non Unloaded state:", Str(m.id)>> >>
    ELSE <<>>

(***************************************************************************)
(* The inputs of the loader model                                          *)
(***************************************************************************)
IidText == [i \in 1..Len(IidLiteral) |-> IF IidLiteral[i] = ANY THEN "." ELSE IidLiteral[i]]

IidInputs ==
    { <<>>,
      <<"x">>,
      IidText \o <<"0", ".", "2", "3">>,
      IidText \o <<"0", ".", "9">>,
      IidText \o <<"0", ".", "2", "4">>,
      IidText \o <<"1", ".", "0">>,
      IidText \o <<"1", ".", "2", "4">>,
      IidText \o <<"0", "2", "3">> }

VersionInputs ==
    { <<>>, <<"1">>, <<"1", ".", "0">>, <<"1", ".", "2", ".", "3">>,
      <<"1", ".", ".", "0">>, <<"v", "1", ".", "0">> }

IdAlphabet == {"a", "B", "-"}
IdInputs == SeqsUpTo(IdAlphabet, MaxIdLen)

TextInputs ==
    { [territory |-> "", language |-> "", plain |-> ""],
      [territory |-> "", language |-> "", plain |-> "Text"],
      [territory |-> "", language |-> "Texte", plain |-> ""] }

ModuleInputs == [kind : {"plugin", "notplugin", "unresolvable"}, releases : BOOLEAN]

LoaderIdle ==
    /\ ctor = "none" /\ metadata_ = NoMetadata /\ errors = <<>> /\ thrown = ""
    /\ state = "Unloaded" /\ instance_ = 0 /\ heap = {} /\ registry = {}
    /\ returned = "" /\ loadLog = <<>> /\ unloadLog = <<>>
    /\ alive = FALSE /\ destroyedIn = "" /\ diagnostics = <<>>

LoaderInit ==
    /\ rawMetadata \in [iid : IidInputs, id : IdInputs, version : VersionInputs,
                         name : TextInputs, description : TextInputs]
    /\ module \in ModuleInputs
    /\ LoaderIdle

(***************************************************************************)
(* The loader's life cycle.  PluginLoaderPrivate (d->load, d->unload) keeps *)
(* the state and the registry; its steps follow the specification:         *)
(* Unloaded -> Loading -> Loaded | Failed -> Unloaded, Loaded -> Unloading *)
(* -> Unloaded, and Loaded again when the native module is not released.   *)
(***************************************************************************)
\* The provider constructs the loader of the candidate module.
Construct ==
    /\ UNCHANGED <<triggerVars, queryVars>>
    /\ ctor = "none"
    /\ LET r == QtPluginLoader_ctor(rawMetadata) IN
         /\ ctor' = IF r.throws THEN "failed" ELSE "constructed"
         /\ alive' = ~r.throws
         /\ metadata_' = r.metadata_
         /\ errors' = r.errors
         /\ thrown' = r.thrown
    /\ UNCHANGED <<rawMetadata, module, state, instance_, heap, registry, returned,
                   loadLog, unloadLog, destroyedIn, diagnostics>>

LoadRequest ==
    /\ UNCHANGED <<triggerVars, queryVars>>
    /\ alive /\ state = "Unloaded" /\ Len(loadLog) < MaxLoads
    /\ state' = "Loading"
    /\ UNCHANGED <<rawMetadata, module, ctor, metadata_, errors, thrown, instance_, heap,
                   registry, returned, loadLog, unloadLog, alive, destroyedIn,
                   diagnostics>>

\* d->load(registry): calls load() and registers the extension on success.
LoadRun ==
    /\ UNCHANGED <<triggerVars, queryVars>>
    /\ alive /\ state = "Loading"
    /\ LET r == QtPluginLoader_load(module, instance_, Len(loadLog) + 1) IN
         /\ instance_' = r.instance_
         /\ heap' = heap \cup r.created
         /\ returned' = r.ret
         /\ state' = IF r.ret = "" THEN "Loaded" ELSE "Failed"
         /\ registry' = IF r.ret = "" THEN registry \cup {metadata_.id} ELSE registry
         /\ loadLog' = Append(loadLog,
                [ret |-> r.ret, stateAfter |-> state', hasInstance |-> r.instance_ # 0,
                 registry |-> registry'])
    /\ UNCHANGED <<rawMetadata, module, ctor, metadata_, errors, thrown, unloadLog, alive,
                   destroyedIn, diagnostics>>

\* The failure has been reported: back to Unloaded.
LoadFailed ==
    /\ UNCHANGED <<triggerVars, queryVars>>
    /\ alive /\ state = "Failed"
    /\ state' = "Unloaded"
    /\ UNCHANGED <<rawMetadata, module, ctor, metadata_, errors, thrown, instance_, heap,
                   registry, returned, loadLog, unloadLog, alive, destroyedIn,
                   diagnostics>>

\* d->unload(registry), first half: the extension leaves the registry.
UnloadRequest ==
    /\ UNCHANGED <<triggerVars, queryVars>>
    /\ alive /\ state = "Loaded" /\ Len(unloadLog) < 2 * MaxLoads
    /\ state' = "Unloading"
    /\ registry' = registry \ {metadata_.id}
    /\ UNCHANGED <<rawMetadata, module, ctor, metadata_, errors, thrown, instance_, heap,
                   returned, loadLog, unloadLog, alive, destroyedIn, diagnostics>>

\* d->unload(registry), second half: calls unload().
UnloadRun ==
    /\ UNCHANGED <<triggerVars, queryVars>>
    /\ alive /\ state = "Unloading"
    /\ LET r == QtPluginLoader_unload(module, instance_) IN
         /\ instance_' = r.instance_
         /\ heap' = heap \ r.deleted
         /\ returned' = r.ret
         /\ state' = IF r.ret = "" THEN "Unloaded" ELSE "Loaded"
         /\ unloadLog' = Append(unloadLog,
                [ret |-> r.ret, stateAfter |-> state', before |-> instance_,
                 after |-> r.instance_,
                 usable |-> r.instance_ # 0 /\ r.instance_ \in heap',
                 registry |-> registry])
    /\ UNCHANGED <<rawMetadata, module, ctor, metadata_, errors, thrown, registry, loadLog,
                   alive, destroyedIn, diagnostics>>

\* The loader is destroyed, in whatever state it is.
Destroy ==
    /\ UNCHANGED <<triggerVars, queryVars>>
    /\ alive
    /\ alive' = FALSE
    /\ destroyedIn' = state
    /\ diagnostics' = diagnostics \o QtPluginLoader_dtor(state, metadata_)
    /\ UNCHANGED <<rawMetadata, module, ctor, metadata_, errors, thrown, state, instance_,
                   heap, registry, returned, loadLog, unloadLog>>

(***************************************************************************)
(* QueryEngine: the handler configuration and the active-trigger table.    *)
(* queryengine.h is not part of the sources; these follow the              *)
(* specification: the handler with the lowest id wins a trigger.           *)
(***************************************************************************)
Handlers == 1..NHandlers
Triggers == {"a ", "b "}
EmptyTriggerError == "EmptyTriggerError"

\* The elements of a set of numbers in ascending order.
RECURSIVE Ascending(_)
Ascending(S) ==
    IF S = {} THEN <<>>
    ELSE LET m == CHOOSE x \in S : \A y \in S : x <= y
         IN <<m>> \o Ascending(S \ {m})

\* The handlers of cfg in the order of their ids.
RECURSIVE ByIdOrder(_, _)
ByIdOrder(S, ids) ==
    IF S = {} THEN <<>>
    ELSE LET m == CHOOSE x \in S : \A y \in S : ids[x] <= ids[y]
         IN <<m>> \o ByIdOrder(S \ {m}, ids)

\* emplace: a trigger that already has a handler keeps it.
RECURSIVE Emplace(_, _, _)
Emplace(order, cfg, table) ==
    IF order = <<>> THEN table
    ELSE LET h == Head(order)
             taken == \E e \in table : e[1] = cfg[h].trigger
         IN Emplace(Tail(order), cfg,
                    IF cfg[h].enabled /\ ~taken
                    THEN table \cup {<<cfg[h].trigger, h>>} ELSE table)

updateActiveTriggers(cfg, ids) == Emplace(ByIdOrder(DOMAIN cfg, ids), cfg, {})

QueryEngine_setTrigger(cfg, h, trigger) ==
    IF trigger = ""
    THEN [error |-> EmptyTriggerError, config |-> cfg]
    ELSE [error |-> "", config |-> [cfg EXCEPT ![h].trigger = trigger]]

QueryEngine_setEnabled(cfg, h, enabled) == [cfg EXCEPT ![h].enabled = enabled]

\* activeTriggers().at(trigger): 0 stands for the std::out_of_range it throws.
At(table, trigger) ==
    IF \E e \in table : e[1] = trigger
    THEN (CHOOSE e \in table : e[1] = trigger)[2]
    ELSE 0

(***************************************************************************)
(* TriggerModel                                                            *)
(***************************************************************************)
RECURSIVE Insert(_, _, _)
Insert(e, sorted, ids) ==
    IF sorted = <<>> THEN <<e>>
    ELSE IF ids[e.handler] < ids[Head(sorted).handler] THEN <<e>> \o sorted
    ELSE <<Head(sorted)>> \o Insert(e, Tail(sorted), ids)

\* ::sort(begin, end, a.handler->id() < b.handler->id())
RECURSIVE sort(_, _)
sort(entries, ids) ==
    IF entries = <<>> THEN <<>>
    ELSE Insert(Head(entries), sort(Tail(entries), ids), ids)

\* update(): one Entry per handler of engine.handlerConfig(), in the order of the
\* map (the handler objects' addresses), then sorted by id.
update(cfg, ids) ==
    LET order == Ascending(DOMAIN cfg)
        unsorted == [i \in 1..Len(order) |->
                        [handler |-> order[i], trigger |-> cfg[order[i]].trigger,
                         enabled |-> cfg[order[i]].enabled]]
    IN sort(unsorted, ids)

ConflictMsg(trigger, winner) ==
    <<"Trigger conflict: reserved by extension", trigger, winner>>
NoRemapMsg == <<"This extension does not allow trigger remapping.", "", 0>>

\* A tool tip that leaves out the conflict line.
toolTip_without_conflict(entry, table, remap) ==
    IF ~remap[entry.handler] THEN <<NoRemapMsg>> ELSE <<>>

\* data(index, Qt::ToolTipRole) in the Trigger column: the list sl.
dataToolTip(entry, table, remap) ==
    (IF ~remap[entry.handler] THEN <<NoRemapMsg>> ELSE <<>>)
    \o (IF entry.enabled /\ At(table, entry.trigger) # entry.handler
        THEN <<ConflictMsg(entry.trigger, At(table, entry.trigger))>> ELSE <<>>)

\* data(index, Qt::ForegroundRole) in the Trigger column.
dataForeground(entry, table) ==
    IF entry.enabled /\ At(table, entry.trigger) # entry.handler THEN "red" ELSE ""

\* flags(index) in the Trigger column: is the cell editable.
flagsEditable(entry, remap) == remap[entry.handler]

\* A setData without the isEmpty() test of the edit role.
setData_without_empty_test(cfg, entries, row, value, role) ==
    IF role = "EditRole"
    THEN [ret |-> TRUE,
          config |-> QueryEngine_setTrigger(cfg, entries[row].handler, value).config,
          called |-> TRUE]
    ELSE [ret |-> TRUE,
          config |-> QueryEngine_setEnabled(cfg, entries[row].handler, value = "Checked"),
          called |-> TRUE]

\* setData(idx, value, role): the configuration it leaves and what it returns.
setData(cfg, entries, row, value, role) ==
    IF role = "EditRole"
    THEN IF value = ""
         THEN [ret |-> FALSE, config |-> cfg, called |-> FALSE]
         ELSE [ret |-> TRUE,
               config |-> QueryEngine_setTrigger(cfg, entries[row].handler, value).config,
               called |-> TRUE]
    ELSE [ret |-> TRUE,
          config |-> QueryEngine_setEnabled(cfg, entries[row].handler, value = "Checked"),
          called |-> TRUE]

NoCall == [role |-> "none", value |-> "", ret |-> FALSE]

TriggerInit ==
    /\ idOf \in {[h \in Handlers |-> h], [h \in Handlers |-> NHandlers + 1 - h]}
    /\ allowRemap \in {[h \in Handlers |-> TRUE], [h \in Handlers |-> h # 1]}
    /\ registered = {}
    /\ handlerConfig = <<>>
    /\ activeTriggers = {}
    /\ query_handlers = update(<<>>, idOf)
    /\ lastSetData = NoCall

\* A handler enters the registry: the engine gives it its configuration, then
\* TriggerModel::onAdd calls update().
RegisterHandler(h) ==
    /\ UNCHANGED <<loaderVars, queryVars>>
    /\ h \notin registered
    /\ \E t \in Triggers, en \in BOOLEAN :
         handlerConfig' = [x \in registered \cup {h} |->
                              IF x = h THEN [trigger |-> t, enabled |-> en]
                              ELSE handlerConfig[x]]
    /\ registered' = registered \cup {h}
    /\ activeTriggers' = updateActiveTriggers(handlerConfig', idOf)
    /\ query_handlers' = update(handlerConfig', idOf)
    /\ UNCHANGED <<idOf, allowRemap, lastSetData>>

\* A handler leaves the registry; TriggerModel::onRem calls update().
RemoveHandler(h) ==
    /\ UNCHANGED <<loaderVars, queryVars>>
    /\ h \in registered
    /\ registered' = registered \ {h}
    /\ handlerConfig' = [x \in registered \ {h} |-> handlerConfig[x]]
    /\ activeTriggers' = updateActiveTriggers(handlerConfig', idOf)
    /\ query_handlers' = update(handlerConfig', idOf)
    /\ UNCHANGED <<idOf, allowRemap, lastSetData>>

\* The view calls setData on a cell of the Trigger column.
SetDataCall(row, value, role) ==
    /\ UNCHANGED <<loaderVars, queryVars>>
    /\ row \in 1..Len(query_handlers)
    /\ role = "EditRole" => flagsEditable(query_handlers[row], allowRemap)
    /\ LET r == setData(handlerConfig, query_handlers, row, value, role) IN
         /\ handlerConfig' = r.config
         /\ activeTriggers' = IF r.called THEN updateActiveTriggers(r.config, idOf)
                              ELSE activeTriggers
         /\ query_handlers' = IF r.called THEN update(r.config, idOf) ELSE query_handlers
         /\ lastSetData' = [role |-> role, value |-> value, ret |-> r.ret]
    /\ UNCHANGED <<idOf, allowRemap, registered>>

EditTrigger == \E row \in 1..NHandlers, value \in Triggers \cup {""} :
    SetDataCall(row, value, "EditRole")

CheckTrigger == \E row \in 1..NHandlers, value \in {"Checked", "Unchecked"} :
    SetDataCall(row, value, "CheckStateRole")

(***************************************************************************)
(* Query: the life cycle of one query.  Only the abstract interface is in  *)
(* the sources (query.h); the behaviour follows the specification:         *)
(* Idle -> Running -> Finished | Cancelled, appends stop once cancelled,   *)
(* the finished signal fires when Finished or Cancelled is reached.        *)
(***************************************************************************)
QHandlers == 1..NQueryHandlers

isFinished == qstate \in {"Finished", "Cancelled"}
isValid == qstate # "Cancelled"

NoCancel == [calls |-> 0, early |-> FALSE, matches |-> <<>>]

QueryInit ==
    /\ qstate = "Idle"
    /\ pending \in SUBSET QHandlers
    /\ delivered = {}
    /\ produced = [h \in QHandlers |-> 0]
    /\ matches = <<>>
    /\ finishedCount = 0
    /\ cancelInfo = NoCancel

\* What run() does to the state: nothing to wait for means Finished at once.
Query_run(st, waiting) ==
    IF st # "Idle" THEN [state |-> st, emit |-> 0]
    ELSE IF waiting = {} THEN [state |-> "Finished", emit |-> 1]
    ELSE [state |-> "Running", emit |-> 0]

\* Sequences that go on accepting appends after the query was cancelled.
add_after_cancel(st, seq, items) == seq \o items

\* The sequences accept appends only while the query is running.
Query_add(st, seq, items) == IF st = "Running" THEN seq \o items ELSE seq

\* A handler's invocation ends: the last one to end finishes a running query.
Query_handlerDone(st, waiting) ==
    IF st = "Running" /\ waiting = {} THEN [state |-> "Finished", emit |-> 1]
    ELSE [state |-> st, emit |-> 0]

\* cancel(): sets the cancellation flag, so the query is Cancelled from then on; a
\* query that had not ended yet ends here and says so.
Query_cancel(st) ==
    [state |-> "Cancelled", emit |-> IF st \in {"Idle", "Running"} THEN 1 ELSE 0]

Run ==
    /\ UNCHANGED <<loaderVars, triggerVars>>
    /\ qstate = "Idle"
    /\ LET r == Query_run(qstate, pending) IN
         /\ qstate' = r.state
         /\ finishedCount' = finishedCount + r.emit
    /\ UNCHANGED <<pending, delivered, produced, matches, cancelInfo>>

\* A handler that is still executing hands over one item.
HandlerAdd(h) ==
    /\ UNCHANGED <<loaderVars, triggerVars>>
    /\ qstate # "Idle" /\ h \in pending /\ produced[h] < MaxItems
    /\ produced' = [produced EXCEPT ![h] = @ + 1]
    /\ matches' = Query_add(qstate, matches, << <<h, produced[h] + 1>> >>)
    /\ UNCHANGED <<qstate, pending, delivered, finishedCount, cancelInfo>>

\* A handler's invocation ends (a handler that faulted ends with nothing more).
HandlerComplete(h) ==
    /\ UNCHANGED <<loaderVars, triggerVars>>
    /\ qstate # "Idle" /\ h \in pending
    /\ pending' = pending \ {h}
    /\ delivered' = delivered \cup {h}
    /\ LET r == Query_handlerDone(qstate, pending') IN
         /\ qstate' = r.state
         /\ finishedCount' = finishedCount + r.emit
    /\ UNCHANGED <<produced, matches, cancelInfo>>

Cancel ==
    /\ UNCHANGED <<loaderVars, triggerVars>>
    /\ cancelInfo.calls < MaxCancels
    /\ LET r == Query_cancel(qstate) IN
         /\ qstate' = r.state
         /\ finishedCount' = finishedCount + r.emit
    /\ cancelInfo' = IF cancelInfo.calls = 0
                     THEN [calls |-> 1, early |-> delivered = {}, matches |-> matches]
                     ELSE [cancelInfo EXCEPT !.calls = @ + 1]
    /\ UNCHANGED <<pending, delivered, produced, matches>>

(***************************************************************************)
(* Specifications: one per subsystem; the other subsystems stay idle.      *)
(***************************************************************************)
TriggerIdle ==
    /\ idOf = [h \in Handlers |-> h] /\ allowRemap = [h \in Handlers |-> TRUE]
    /\ registered = {} /\ handlerConfig = <<>> /\ activeTriggers = {}
    /\ query_handlers = <<>> /\ lastSetData = NoCall

QueryIdle ==
    /\ qstate = "Idle" /\ pending = {} /\ delivered = {}
    /\ produced = [h \in QHandlers |-> 0] /\ matches = <<>>
    /\ finishedCount = 0 /\ cancelInfo = NoCancel

LoaderIdleInit ==
    /\ rawMetadata = [iid |-> <<>>, id |-> <<>>, version |-> <<>>,
                      name |-> [territory |-> "", language |-> "", plain |-> ""],
                      description |-> [territory |-> "", language |-> "", plain |-> ""]]
    /\ module = [kind |-> "plugin", releases |-> TRUE]
    /\ LoaderIdle

InitLoader == LoaderInit /\ TriggerIdle /\ QueryIdle
NextLoader ==
    \/ Construct
    \/ LoadRequest
    \/ LoadRun
    \/ LoadFailed
    \/ UnloadRequest
    \/ UnloadRun
    \/ Destroy
SpecLoader == InitLoader /\ [][NextLoader]_vars

InitTrigger == TriggerInit /\ LoaderIdleInit /\ QueryIdle
NextTrigger ==
    \/ \E h \in Handlers : RegisterHandler(h)
    \/ \E h \in Handlers : RemoveHandler(h)
    \/ EditTrigger
    \/ CheckTrigger
SpecTrigger == InitTrigger /\ [][NextTrigger]_vars

InitQuery == QueryInit /\ LoaderIdleInit /\ TriggerIdle
NextQuery ==
    \/ Run
    \/ \E h \in QHandlers : HandlerAdd(h)
    \/ \E h \in QHandlers : HandlerComplete(h)
    \/ Cancel
SpecQuery == InitQuery /\ [][NextQuery]_vars

Init == InitLoader \/ InitTrigger \/ InitQuery
Next == NextLoader \/ NextTrigger \/ NextQuery
Spec == Init /\ [][Next]_vars

(***************************************************************************)
(* The validation rules as the specification states them                   *)
(***************************************************************************)
Range(f) == {f[i] : i \in DOMAIN f}

\* org.albert.PluginInterface/<major>.<minor>: the whole iid, with a literal dot.
IidForm(iid) ==
    LET p == Len(IidText) + 1
        a == DigitRun(iid, p)
        b == DigitRun(iid, p + a + 1)
    IN [ok |-> /\ Len(iid) > Len(IidText)
               /\ SubSeq(iid, 1, Len(IidText)) = IidText
               /\ a >= 1
               /\ p + a <= Len(iid) /\ iid[p + a] = "."
               /\ b >= 1
               /\ p + a + b = Len(iid),
        major |-> DecimalValue(SubSeq(iid, p, p + a - 1)),
        minor |-> DecimalValue(SubSeq(iid, p + a + 1, p + a + b))]

\* [a-z0-9_]+ : the whole id.
IdRuleHolds(id) == id # <<>> /\ \A i \in 1..Len(id) : IsIdChar(id[i])

PatternViolated(raw) == ~IidForm(raw.iid).ok
MajorViolated(raw) == IidForm(raw.iid).ok /\ IidForm(raw.iid).major # ALBERT_VERSION_MAJOR
MinorViolated(raw) == IidForm(raw.iid).ok /\ IidForm(raw.iid).minor > ALBERT_VERSION_MINOR
VersionViolated(raw) == ~regex_version(raw.version)
IdViolated(raw) == ~IdRuleHolds(raw.id)
NameViolated(raw) == fetchLocalizedMetadata(raw.name) = ""
DescriptionViolated(raw) == fetchLocalizedMetadata(raw.description) = ""

SomeRuleViolated(raw) ==
    \/ PatternViolated(raw) \/ MajorViolated(raw) \/ MinorViolated(raw)
    \/ VersionViolated(raw) \/ IdViolated(raw)
    \/ NameViolated(raw) \/ DescriptionViolated(raw)

Validated == ctor # "none" /\ rawMetadata.iid # <<>>

C2_InvalidModuleNeverLoads ==
    SomeRuleViolated(rawMetadata) =>
        /\ ctor # "constructed"
        /\ loadLog = <<>>
        /\ registry = {}

(***************************************************************************)
(* C3: validation reports one distinct entry for every violated rule among *)
(* wrong major, too new minor, malformed version, invalid id, empty name,  *)
(* empty description, whatever the combination.                            *)
(***************************************************************************)
C3_OneEntryPerViolatedRule ==
    Validated =>
        /\ MajorViolated(rawMetadata) =>
              MajorMsg(IidForm(rawMetadata.iid).major) \in Range(errors)
        /\ MinorViolated(rawMetadata) =>
              MinorMsg(IidForm(rawMetadata.iid).minor) \in Range(errors)
        /\ VersionViolated(rawMetadata) => VersionMsg \in Range(errors)
        /\ IdViolated(rawMetadata) => IdMsg \in Range(errors)
        /\ NameViolated(rawMetadata) => NameMsg \in Range(errors)
        /\ DescriptionViolated(rawMetadata) => DescriptionMsg \in Range(errors)
        /\ \A i, j \in 1..Len(errors) : errors[i] = errors[j] => i = j

(***************************************************************************)
(* C4: validation reports an invalid id exactly when the id is empty or    *)
(* holds a character outside lowercase letters, digits and underscore.     *)
(***************************************************************************)
C4_IdRuleIsExact ==
    Validated => (IdMsg \in Range(errors) <=> ~IdRuleHolds(rawMetadata.id))

(***************************************************************************)
(* C5 as stated: after an unload() that failed to release the module the   *)
(* loader is Loaded and still owns the usable instance it had.             *)
(***************************************************************************)
C5_FailedUnloadKeepsInstance ==
    \A i \in 1..Len(unloadLog) :
        unloadLog[i].ret # "" =>
            /\ unloadLog[i].stateAfter = "Loaded"
            /\ unloadLog[i].after = unloadLog[i].before
            /\ unloadLog[i].before # 0 => unloadLog[i].usable

(***************************************************************************)
(* C5 as amended: an unload() that fails to release the module returns the *)
(* failure message and leaves the loader Loaded, so that it can be         *)
(* retried, but the instance is destroyed and instance() is null all the   *)
(* same; a successful unload() leaves the loader Unloaded, and the loader  *)
(* becomes Unloaded again after a load only through a successful unload(). *)
(***************************************************************************)
C5_FailedUnloadStaysLoadedWithoutInstance ==
    /\ \A i \in 1..Len(unloadLog) :
          /\ unloadLog[i].after = 0
          /\ ~unloadLog[i].usable
          /\ unloadLog[i].ret # "" =>
                unloadLog[i].ret = UnloadErrorString /\ unloadLog[i].stateAfter = "Loaded"
          /\ unloadLog[i].ret = "" => unloadLog[i].stateAfter = "Unloaded"
    /\ (unloadLog # <<>> /\ unloadLog[Len(unloadLog)].ret # "") =>
          /\ state \in {"Loaded", "Unloading"}
          /\ instance_ = 0
    /\ (state = "Unloaded" /\ \E i \in 1..Len(loadLog) : loadLog[i].ret = "") =>
          /\ unloadLog # <<>>
          /\ unloadLog[Len(unloadLog)].ret = ""
    /\ heap \subseteq {instance_}

\* A failed unload() of a loaded plugin, and the retry that followed it.
C5_Witness ==
    /\ Len(unloadLog) = 2
    /\ unloadLog[1].ret # "" /\ unloadLog[1].before # 0
    /\ unloadLog[2].ret # ""
    /\ state = "Loaded"

(***************************************************************************)
(* C6: a load() whose module yields an object that is no PluginInstance    *)
(* returns the non-empty not-of-type message, leaves instance() null and   *)
(* the loader does not become Loaded; a load() whose module does not       *)
(* resolve returns the module's error string and the loader does not       *)
(* become Loaded; load() returns the empty string only with a non-null     *)
(* instance().                                                             *)
(***************************************************************************)
C6_LoadErrors ==
    \A i \in 1..Len(loadLog) :
        /\ module.kind = "notplugin" =>
              /\ loadLog[i].ret = NotPluginInstanceMsg /\ loadLog[i].ret # ""
              /\ ~loadLog[i].hasInstance
              /\ loadLog[i].stateAfter # "Loaded"
        /\ module.kind = "unresolvable" =>
              /\ loadLog[i].ret = LoadErrorString /\ loadLog[i].ret # ""
              /\ loadLog[i].stateAfter # "Loaded"
        /\ loadLog[i].ret = "" => loadLog[i].hasInstance
        /\ loadLog[i].stateAfter = "Loaded" <=> loadLog[i].ret = ""

\* A module whose root object is no PluginInstance has been loaded, twice.
C6_Witness ==
    /\ module.kind = "notplugin"
    /\ Len(loadLog) = 2
    /\ instance_ = 0
    /\ state = "Unloaded"

(***************************************************************************)
(* C7: for a well-formed module every load() succeeds with the same result *)
(* as the first (Loaded, a non-null instance, the same registry entries),  *)
(* and every unload() brings the loader back to Unloaded with a null       *)
(* instance and no registry entry, for any number of cycles.               *)
(***************************************************************************)
WellFormed == module.kind = "plugin" /\ module.releases

C7_LoadUnloadRoundTrip ==
    WellFormed =>
        /\ \A i \in 1..Len(loadLog) :
              /\ loadLog[i].ret = "" /\ loadLog[i].stateAfter = "Loaded"
              /\ loadLog[i].hasInstance
              /\ loadLog[i].registry = {metadata_.id}
              /\ loadLog[i] = loadLog[1]
        /\ \A i \in 1..Len(unloadLog) :
              /\ unloadLog[i].ret = "" /\ unloadLog[i].stateAfter = "Unloaded"
              /\ unloadLog[i].after = 0
              /\ unloadLog[i].registry = {}
        /\ state = "Unloaded" => instance_ = 0 /\ registry = {} /\ heap = {}
        /\ state = "Loaded" => instance_ \in heap /\ registry = {metadata_.id}

\* The second load() after a complete load/unload cycle.
C7_Witness ==
    /\ WellFormed
    /\ Len(loadLog) = 2 /\ Len(unloadLog) = 1
    /\ state = "Loaded"

(***************************************************************************)
(* C8: the active-trigger table gives each trigger at most one handler;    *)
(* the trigger of every enabled handler is in the table, with that handler *)
(* or with another enabled handler of the same trigger; a handler that     *)
(* lost stays enabled in handlerConfig(), has its row in the table and is  *)
(* reported as a conflict there; and the table kept by the engine is the   *)
(* one a recomputation from the configuration gives.                       *)
(***************************************************************************)
C8_ActiveTriggers ==
    /\ \A e1, e2 \in activeTriggers : e1[1] = e2[1] => e1 = e2
    /\ \A h \in registered :
          handlerConfig[h].enabled =>
              \E e \in activeTriggers :
                  /\ e[1] = handlerConfig[h].trigger
                  /\ \/ e[2] = h
                     \/ /\ e[2] \in registered
                        /\ handlerConfig[e[2]].enabled
                        /\ handlerConfig[e[2]].trigger = handlerConfig[h].trigger
    /\ \A h \in registered :
          \E row \in 1..Len(query_handlers) :
              LET entry == query_handlers[row]
                  winner == At(activeTriggers, entry.trigger)
              IN /\ entry.handler = h
                 /\ entry.enabled = handlerConfig[h].enabled
                 /\ entry.trigger = handlerConfig[h].trigger
                 /\ (entry.enabled /\ <<entry.trigger, h>> \notin activeTriggers) =>
                       /\ winner # 0
                       /\ ConflictMsg(entry.trigger, winner)
                              \in Range(dataToolTip(entry, activeTriggers, allowRemap))
                       /\ dataForeground(entry, activeTriggers) = "red"
    /\ activeTriggers = updateActiveTriggers(handlerConfig, idOf)

\* Three enabled handlers, two of which are configured with the trigger of the third.
C8_Witness ==
    /\ registered = Handlers
    /\ \A h \in registered : handlerConfig[h].enabled
    /\ Cardinality({handlerConfig[h].trigger : h \in registered}) = 1
    /\ Cardinality(activeTriggers) = 1

(***************************************************************************)
(* C9: setting an empty trigger through the table's edit path is rejected  *)
(* and changes neither handlerConfig(), nor the active-trigger table, nor  *)
(* the table's entries, and the engine's setTrigger rejects it as well; a  *)
(* non-empty trigger becomes the handler's configured trigger, and the     *)
(* table's entries are then handlerConfig() ordered by handler id.         *)
(***************************************************************************)
EntriesAreConfigById(entries, cfg) ==
    /\ Len(entries) = Cardinality(DOMAIN cfg)
    /\ \A i \in 1..Len(entries) :
          /\ entries[i].handler \in DOMAIN cfg
          /\ entries[i].trigger = cfg[entries[i].handler].trigger
          /\ entries[i].enabled = cfg[entries[i].handler].enabled
    /\ \A i, j \in 1..Len(entries) :
          i < j => idOf[entries[i].handler] < idOf[entries[j].handler]

C9_EditStep(row, value) ==
    SetDataCall(row, value, "EditRole") =>
        LET h == query_handlers[row].handler IN
        IF value = ""
        THEN /\ ~lastSetData'.ret
             /\ UNCHANGED <<handlerConfig, activeTriggers, query_handlers>>
             /\ QueryEngine_setTrigger(handlerConfig, h, "")
                    = [error |-> EmptyTriggerError, config |-> handlerConfig]
        ELSE /\ lastSetData'.ret
             /\ handlerConfig'[h].trigger = value
             /\ \A x \in registered \ {h} : handlerConfig'[x] = handlerConfig[x]
             /\ EntriesAreConfigById(query_handlers', handlerConfig')

C9_EmptyTriggerRejected ==
    [][\A row \in 1..NHandlers, value \in Triggers \cup {""} : C9_EditStep(row, value)]_vars

\* An edit with the empty string was just refused on a table of three rows.
C9_Witness ==
    /\ lastSetData.role = "EditRole" /\ lastSetData.value = "" /\ ~lastSetData.ret
    /\ Len(query_handlers) = NHandlers
    /\ idOf[1] > idOf[2]

(***************************************************************************)
(* C10: destroying a loader that is not Unloaded writes exactly one        *)
(* logic-error diagnostic, which names the plugin, and the destruction     *)
(* completes; destroying an Unloaded loader writes none.                   *)
(***************************************************************************)
C10_DestructorGuard ==
    /\ alive => diagnostics = <<>>
    /\ (ctor = "constructed" /\ ~alive) =>
          IF destroyedIn \in {"Loading", "Loaded", "Unloading", "Failed"}
          THEN /\ Len(diagnostics) = 1
               /\ diagnostics[1][2] = Str(metadata_.id)
          ELSE destroyedIn = "Unloaded" /\ diagnostics = <<>>

\* A loader destroyed in the middle of a load request.
C10_Witness ==
    /\ ctor = "constructed" /\ ~alive
    /\ destroyedIn = "Loading"
    /\ Len(diagnostics) = 1

====
